---- MODULE Spec2Model ----
(***************************************************************************)
(* A model of the `select` tool (dprkh/select): the textual encoding of    *)
(* SelectedPath, the interactive reconciliation of a selection             *)
(* (Sel::run / interactive_selection) and the expansion of a selection     *)
(* into files (walk_selected_files).                                       *)
(*                                                                         *)
(* Text is a sequence of one-character strings.  A filesystem path is the  *)
(* sequence of its components below "/", each component a text.            *)
(***************************************************************************)
EXTENDS Integers, Sequences, FiniteSets

\* ------------------------------------------------------------------ bounds

\* Longest path string drawn for the encode/decode round trip.
MaxLen == 3

\* Most lines the user types into the editor buffer from scratch.
MaxLines == 2

\* Most entries of a Selection that is expanded.
MaxEntries == 2

\* ------------------------------------------------------------------ state

\* The select command.
VARIABLES
    configSel,                  \* select.toml: the `selection` field, as stored strings
    pc,                         \* where the running command is
    roots,                      \* Sel.roots: the CLI arguments
    cwd,                        \* env::current_dir()
    previous_selection,         \* config.selection.take()
    final_paths,                \* HashMap<PathBuf, bool>, as a set of (path, flag)
    originally_selected_paths,  \* HashSet<PathBuf>
    canonical_roots,            \* Vec<PathBuf>
    buf,                        \* the buffer handed to the editor, line by line
    tmpfile,                    \* the NamedTempFile: "none", "exists" or "removed"
    exit_status,                \* the exit status Child::wait returned, "none" before
    result,                     \* the text read back from the temporary file
    paths,                      \* HashSet<SelectedPath> of canonical paths
    errors,                     \* Vec<Report> of the lines that failed
    selection,                  \* the Selection returned by the reconciliation
    error,                      \* the Report the command fails with
    failedAt,                   \* the step that failed
    before,                     \* select.toml as it was when the command started
    steps                       \* the steps this run has taken, in order

\* One encode/decode round trip.
VARIABLES
    cpc,    \* "new", "encoded", "decoded"; "off" while the select command is modelled
    cin,    \* the SelectedPath to encode
    ctext,  \* its text
    cout    \* the SelectedPath decoded from the text

\* One call of remove_comments_from_string.
VARIABLES
    rpc,    \* "loop", "done"; "off" otherwise
    rinput, \* the argument
    rtext   \* `text`, the String the loop rewrites

\* The features of the repository (.select/features).
VARIABLES
    fpc,    \* "on" while the feature commands are modelled, "off" otherwise
    fdirs,  \* the directories at and below .select/features, relative to it
    fsels,  \* the directories holding a selection.toml
    flast,  \* per name, the last successful operation: "none", "create", "delete"
    fop     \* the last operation: which, on what name, whether it returned Ok

\* One expansion of a Selection (walk_selected_files).
VARIABLES
    wpc,        \* "new", "entries", "items", "done", "failed"; "off" otherwise
    wselection, \* the Selection to expand
    wcwd,       \* env::current_dir()
    wqueue,     \* selected_paths still to walk, in iteration order
    wentry,     \* the selected_path being walked
    witems,     \* what the walk of wentry has still to yield
    wcalls,     \* the calls of on_file so far
    werror      \* the Report walk_selected_files fails with

\* ------------------------------------------------------------------- text

STAR == "*"

HASH == "#"

SLASH == "/"

DOT == "."

SPACE == " "

\* str::starts_with(char)
StartsWith(s, c) == Len(s) > 0 /\ s[1] = c

\* &s[1..]
Tail1(s) == SubSeq(s, 2, Len(s))

RECURSIVE TrimStart(_)
TrimStart(s) == IF Len(s) > 0 /\ s[1] = SPACE THEN TrimStart(Tail1(s)) ELSE s

RECURSIVE TrimEnd(_)
TrimEnd(s) ==
    IF Len(s) > 0 /\ s[Len(s)] = SPACE THEN TrimEnd(SubSeq(s, 1, Len(s) - 1)) ELSE s

\* str::trim
Trim(s) == TrimEnd(TrimStart(s))

\* All texts over the alphabet A of length at most n.
RECURSIVE TextsUpTo(_, _)
TextsUpTo(A, n) ==
    IF n = 0 THEN {<<>>}
    ELSE LET shorter == TextsUpTo(A, n - 1)
         IN  shorter \cup {Append(s, c) : s \in shorter, c \in A}

\* ----------------------------------------------------------- SelectedPath

\* SelectedPath::new
SelectedPath(path, recursive) == [path |-> path, recursive |-> recursive]

\* A decoder that forgets to strip the marker.
FromStrKeepStar(s) == SelectedPath(s, ~StartsWith(s, STAR))

\* impl FromStr for SelectedPath
FromStr(s) ==
    LET recursive == ~StartsWith(s, STAR)
    IN  SelectedPath(IF recursive THEN s ELSE Tail1(s), recursive)

\* impl ToString for SelectedPath
ToString(sp) == IF sp.recursive THEN sp.path ELSE <<STAR>> \o sp.path

\* ------------------------------------------------------------------ paths

\* The ".." component (Component::ParentDir).
PARENT == <<DOT, DOT>>

\* Path::is_absolute, on the text of a path
IsAbsolute(s) == StartsWith(s, SLASH)

HasSlash(s) == \E i \in 1..Len(s) : s[i] = SLASH

FirstSlash(s) == CHOOSE i \in 1..Len(s) : s[i] = SLASH /\ \A j \in 1..(i - 1) : s[j] # SLASH

\* The text of a path cut at every '/'.
RECURSIVE Segments(_)
Segments(s) ==
    IF ~HasSlash(s) THEN <<s>>
    ELSE LET i == FirstSlash(s)
         IN  <<SubSeq(s, 1, i - 1)>> \o Segments(SubSeq(s, i + 1, Len(s)))

IsName(c) == c # <<>> /\ c # <<DOT>>

\* Path::components: repeated separators and "." vanish, ".." stays.
Components(s) == SelectSeq(Segments(s), IsName)

\* PathBuf::join: an absolute argument replaces the base.
Join(base, s) == IF IsAbsolute(s) THEN Components(s) ELSE base \o Components(s)

\* Path::display of a relative path given by its components.
RECURSIVE Display(_)
Display(p) ==
    IF p = <<>> THEN <<>>
    ELSE IF Len(p) = 1 THEN p[1]
    ELSE p[1] \o <<SLASH>> \o Display(Tail(p))

None == [some |-> FALSE, path |-> <<>>]

Some(p) == [some |-> TRUE, path |-> p]

RECURSIVE Parents(_)
Parents(b) == IF b = <<>> THEN <<>> ELSE <<PARENT>> \o Parents(Tail(b))

\* The loop of pathdiff::diff_paths over the components of two absolute paths.
RECURSIVE DiffLoop(_, _, _)
DiffLoop(a, b, comps) ==
    IF a = <<>> /\ b = <<>> THEN Some(comps)
    ELSE IF b = <<>> THEN Some(comps \o a)
    ELSE IF a = <<>> THEN DiffLoop(a, Tail(b), Append(comps, PARENT))
    ELSE IF comps = <<>> /\ Head(a) = Head(b) THEN DiffLoop(Tail(a), Tail(b), comps)
    ELSE IF Head(b) = <<DOT>> THEN DiffLoop(Tail(a), Tail(b), Append(comps, Head(a)))
    ELSE IF Head(b) = PARENT THEN None
    ELSE Some(comps \o <<PARENT>> \o Parents(Tail(b)) \o a)

\* A relativizer that refuses every path that is not below the base.
DiffPathsInsideOnly(path, base) ==
    IF Len(path) >= Len(base) /\ SubSeq(path, 1, Len(base)) = base
    THEN Some(SubSeq(path, Len(base) + 1, Len(path)))
    ELSE None

\* pathdiff::diff_paths(path, base), both absolute.
DiffPaths(path, base) == DiffLoop(path, base, <<>>)

\* -------------------------------------------------------------- filesystem

R == <<"r">>

D == <<"d">>

S == <<"s">>

T == <<"t">>

O == <<"o">>

A == <<"a">>

B == <<"b">>

C == <<"c">>

E == <<"e">>

F == <<"f">>

\* A hidden directory and a hidden file.
G == <<DOT, "g">>

H == <<DOT, "h">>

U == <<"u">>

X == <<"x">>

Y == <<"y">>

\* The directories on disk and the names each holds, in readdir order:
\* /r is the repository, /r/t (which holds the directory u) is excluded by
\* /r/.gitignore, /r/d holds the hidden .g and .h, /o lies outside.
ReadDir(p) ==
    CASE p = <<>> -> <<O, R>>
      [] p = <<R>> -> <<D, T>>
      [] p = <<R, D>> -> <<G, H, A, S>>
      [] p = <<R, D, G>> -> <<F>>
      [] p = <<R, D, S>> -> <<B>>
      [] p = <<R, T>> -> <<C, U>>
      [] p = <<O>> -> <<E>>
      [] OTHER -> <<>>

Dirs == {<<>>, <<R>>, <<R, D>>, <<R, D, G>>, <<R, D, S>>, <<R, T>>, <<R, T, U>>,
         <<O>>}

Files == {<<R, D, A>>, <<R, D, H>>, <<R, D, G, F>>, <<R, D, S, B>>, <<R, T, C>>, <<O, E>>}

Exists(p) == p \in Dirs \cup Files

\* Paths matched by an ignore rule (.gitignore or the custom ignore file).
IgnoredPaths == {<<R, T>>}

\* git::repo_root
GitRoot == <<R>>

Fail == [ok |-> FALSE, path |-> <<>>]

Ok(p) == [ok |-> TRUE, path |-> p]

ParentOf(p) == IF p = <<>> THEN <<>> ELSE SubSeq(p, 1, Len(p) - 1)

\* Path resolution segment by segment: every step but the last needs a directory.
RECURSIVE Resolve(_, _)
Resolve(cur, segs) ==
    IF segs = <<>> THEN Ok(cur)
    ELSE IF cur \notin Dirs THEN Fail
    ELSE LET c == Head(segs)
         IN  IF ~IsName(c) THEN Resolve(cur, Tail(segs))
             ELSE IF c = PARENT THEN Resolve(ParentOf(cur), Tail(segs))
             ELSE IF Exists(Append(cur, c)) THEN Resolve(Append(cur, c), Tail(segs))
             ELSE Fail

\* fs::canonicalize of the text s in a process whose working directory is dir:
\* the empty path and a missing path fail.
Canonicalize(s, dir) ==
    IF s = <<>> THEN Fail
    ELSE Resolve(IF IsAbsolute(s) THEN <<>> ELSE dir, Segments(s))

\* The place an absolute path with ".." components names (there are no symlinks).
RECURSIVE RealFrom(_, _)
RealFrom(cur, comps) ==
    IF comps = <<>> THEN cur
    ELSE IF Head(comps) = PARENT THEN RealFrom(ParentOf(cur), Tail(comps))
    ELSE RealFrom(Append(cur, Head(comps)), Tail(comps))

Real(p) == RealFrom(<<>>, p)

RECURSIVE Flatten(_)
Flatten(ss) == IF ss = <<>> THEN <<>> ELSE Head(ss) \o Flatten(Tail(ss))

\* A name the walker's hidden filter (on by default) skips.
Hidden(n) == StartsWith(n, DOT)

\* A walk that descends everywhere and drops the matched entries afterwards.
RECURSIVE WalkAll(_, _, _)
WalkAll(p, depth, limited) ==
    <<p>> \o
    (IF Real(p) \in Dirs /\ (~limited \/ depth < 1)
     THEN Flatten([i \in 1..Len(ReadDir(Real(p))) |->
                      WalkAll(Append(p, ReadDir(Real(p))[i]), depth + 1, limited)])
     ELSE <<>>)

WalkFromPostFilter(p, depth, limited) ==
    SelectSeq(WalkAll(p, depth, limited),
              LAMBDA q : q = p \/ (Real(q) \notin IgnoredPaths /\ ~Hidden(q[Len(q)])))

\* ignore::Walk from one root: the root itself (depth 0, never filtered), then
\* depth first every entry that is not hidden and that no ignore rule matches;
\* skipped directories are pruned; `limited` is max_depth(Some(1)).
RECURSIVE WalkFrom(_, _, _)
WalkFrom(p, depth, limited) ==
    <<p>> \o
    (IF Real(p) \in Dirs /\ (~limited \/ depth < 1)
     THEN LET kids == SelectSeq(ReadDir(Real(p)),
                                LAMBDA n : /\ ~Hidden(n)
                                           /\ Append(Real(p), n) \notin IgnoredPaths)
          IN  Flatten([i \in 1..Len(kids) |-> WalkFrom(Append(p, kids[i]), depth + 1, limited)])
     ELSE <<>>)

\* WalkBuilder::new(first).add(root)...build(): the roots one after another.
Walk(rootSeq, limited) ==
    Flatten([i \in 1..Len(rootSeq) |-> WalkFrom(rootSeq[i], 0, limited)])

Range(f) == {f[i] : i \in DOMAIN f}

\* --------------------------------------------------------------- ordering

\* The characters of the model in byte order.
ByteOrder ==
    <<SPACE, HASH, STAR, DOT, SLASH, "a", "b", "c", "d", "e", "f", "g", "h", "o", "r", "s", "t", "u", "x", "y">>

Rank(c) == CHOOSE i \in 1..Len(ByteOrder) : ByteOrder[i] = c

\* Ord for OsStr: byte-wise lexicographic.
RECURSIVE TextLess(_, _)
TextLess(s, t) ==
    IF t = <<>> THEN FALSE
    ELSE IF s = <<>> THEN TRUE
    ELSE IF s[1] # t[1] THEN Rank(s[1]) < Rank(t[1])
    ELSE TextLess(Tail1(s), Tail1(t))

\* Ord for Component: ParentDir sorts before every Normal component.
ComponentLess(a, b) ==
    IF a = PARENT THEN b # PARENT
    ELSE IF b = PARENT THEN FALSE
    ELSE TextLess(a, b)

\* Ord for Path: component-wise lexicographic.
RECURSIVE PathLess(_, _)
PathLess(p, q) ==
    IF q = <<>> THEN FALSE
    ELSE IF p = <<>> THEN TRUE
    ELSE IF Head(p) # Head(q) THEN ComponentLess(Head(p), Head(q))
    ELSE PathLess(Tail(p), Tail(q))

\* An order that compares the encodings of the entries byte by byte.
SelectedPathLessByEncoding(x, y) ==
    TextLess(ToString(SelectedPath(Display(x.path), x.recursive)),
             ToString(SelectedPath(Display(y.path), y.recursive)))

\* #[derive(PartialOrd, Ord)] on SelectedPath: path first, then recursive (false < true).
SelectedPathLess(x, y) ==
    \/ PathLess(x.path, y.path)
    \/ (x.path = y.path /\ ~x.recursive /\ y.recursive)

\* Vec::sort_unstable of the elements of a set.
RECURSIVE Sorted(_)
Sorted(set) ==
    IF set = {} THEN <<>>
    ELSE LET m == CHOOSE x \in set : \A y \in set : ~SelectedPathLess(y, x)
         IN  <<m>> \o Sorted(set \ {m})

\* ------------------------------------------------------------ error reports

\* An eyre::Report is its chain of messages, outermost first.
Msg(kind, path) == [msg |-> kind, path |-> path]

\* WrapErr::wrap_err: a new outermost message.
WrapErr(report, m) == <<m>> \o report

\* fs::canonicalize(..).wrap_err_with(|| format!("failed to canonicalize {}", ..))
CanonicalizeError(pathText) ==
    WrapErr(<<Msg("io", <<>>)>>, Msg("failed to canonicalize", pathText))

\* errors.into_iter().fold(eyre!("encountered multiple errors"), |acc, e| acc.wrap_err(e)):
\* each error becomes, by its Display (its outermost message), a new outermost message.
RECURSIVE FoldErrors(_, _)
FoldErrors(acc, errs) ==
    IF errs = <<>> THEN acc
    ELSE FoldErrors(WrapErr(acc, Head(Head(errs))), Tail(errs))

\* An aggregation that reports the last error only.
AggregateLastOnly(errs) == errs[Len(errs)]

\* The error interactive_selection returns for a non-empty list of line errors.
AggregateErrors(errs) ==
    IF Len(errs) = 1 THEN errs[Len(errs)]
    ELSE FoldErrors(<<Msg("encountered multiple errors", <<>>)>>, errs)

\* ---------------------------------------------------------- reconciliation

\* Config::read then `toml::from_slice`: every stored string is parsed by FromStr.
ReadSelection(stored) == {FromStr(s) : s \in stored}

\* toml::to_string_pretty of a Selection: every entry is written by ToString.
WriteSelection(sel) == {ToString(sp) : sp \in sel}

Keys(fp) == {e.path : e \in fp}

\* previous_selection...map(|sp| (git_root.join(sp.path), sp.recursive)): the pairs
\* collected into the HashMap.
JoinedEntries(prev) == {SelectedPath(Join(GitRoot, sp.path), sp.recursive) : sp \in prev}

\* .collect::<HashMap<PathBuf, bool>>(): one value per key; when two pairs share
\* a key the one iterated last wins, and a HashSet iterates in no fixed order.
LoadChoices(prev) ==
    {fp \in SUBSET JoinedEntries(prev) :
        \A k \in Keys(JoinedEntries(prev)) : Cardinality({e \in fp : e.path = k}) = 1}

\* An insertion that overrides the stored flag.
InsertOverride(fp, p) == {e \in fp : e.path # p} \cup {SelectedPath(p, TRUE)}

\* final_paths.entry(path).or_insert(true)
OrInsert(fp, p) == IF p \in Keys(fp) THEN fp ELSE fp \cup {SelectedPath(p, TRUE)}

RECURSIVE InsertAll(_, _)
InsertAll(fp, ps) == IF ps = <<>> THEN fp ELSE InsertAll(OrInsert(fp, Head(ps)), Tail(ps))

\* A resolution of the roots that leaves out the ones that do not exist.
RECURSIVE CanonicalizeRootsSkipMissing(_, _, _)
CanonicalizeRootsSkipMissing(rs, dir, done) ==
    IF rs = <<>> THEN [ok |-> TRUE, paths |-> done, bad |-> <<>>]
    ELSE LET c == Canonicalize(Head(rs), dir)
         IN  CanonicalizeRootsSkipMissing(Tail(rs), dir,
                                          IF c.ok THEN Append(done, c.path) ELSE done)

\* roots.iter().map(|p| p.canonicalize()).collect::<Result<_>>(): the canonical
\* roots, or the first root that fails.
RECURSIVE CanonicalizeRoots(_, _, _)
CanonicalizeRoots(rs, dir, done) ==
    IF rs = <<>> THEN [ok |-> TRUE, paths |-> done, bad |-> <<>>]
    ELSE LET c == Canonicalize(Head(rs), dir)
         IN  IF c.ok THEN CanonicalizeRoots(Tail(rs), dir, Append(done, c.path))
             ELSE [ok |-> FALSE, paths |-> <<>>, bad |-> Head(rs)]

IsDir(p) == Real(p) \in Dirs

IsFile(p) == Real(p) \in Files

\* const HEADER: three comment lines and an empty line.
HEADER == <<<<HASH, "1">>, <<HASH, "2">>, <<HASH, "3">>, <<>>>>

\* to_relative_string: the path relative to the working directory, encoded.
ToRelativeString(item, dir) ==
    LET rel == DiffPaths(item.path, dir)
    IN  [ok |-> rel.some,
         text |-> IF rel.some THEN ToString(SelectedPath(Display(rel.path), item.recursive))
                  ELSE <<>>,
         path |-> item.path]

RenderLines(items, dir) == [i \in 1..Len(items) |-> ToRelativeString(items[i], dir)]

\* A buffer with all candidates in one sorted list, the suggestions commented in place.
RenderBufferOneGroup(fp, orig, dir) ==
    LET all_paths == Sorted(fp)
        lines == RenderLines(all_paths, dir)
        bad == SelectSeq(lines, LAMBDA l : ~l.ok)
    IN  IF bad # <<>>
        THEN [ok |-> FALSE, buf |-> <<>>, bad |-> bad[1].path]
        ELSE [ok |-> TRUE,
              buf |-> HEADER
                      \o [i \in 1..Len(lines) |->
                             IF all_paths[i].path \in orig THEN lines[i].text
                             ELSE <<HASH, SPACE>> \o lines[i].text],
              bad |-> <<>>]

\* Step 4 of interactive_selection: partition, sort each group, write the buffer.
RenderBuffer(fp, orig, dir) ==
    LET selected_paths == Sorted({e \in fp : e.path \in orig})
        new_suggested_paths == Sorted({e \in fp : e.path \notin orig})
        sel == RenderLines(selected_paths, dir)
        new == RenderLines(new_suggested_paths, dir)
        bad == SelectSeq(sel \o new, LAMBDA l : ~l.ok)
    IN  IF bad # <<>>
        THEN [ok |-> FALSE, buf |-> <<>>, bad |-> bad[1].path]
        ELSE [ok |-> TRUE,
              buf |-> HEADER
                      \o [i \in 1..Len(sel) |-> sel[i].text]
                      \o (IF sel # <<>> /\ new # <<>> THEN <<<<>>>> ELSE <<>>)
                      \o [i \in 1..Len(new) |-> <<HASH, SPACE>> \o new[i].text],
              bad |-> <<>>]

\* A filter that looks for the comment marker after trimming.
CountedTrimmedHash(line) == ~StartsWith(Trim(line), HASH) /\ Trim(line) # <<>>

\* .filter(|line| !line.starts_with('#') && !line.trim().is_empty())
Counted(line) == ~StartsWith(line, HASH) /\ Trim(line) # <<>>

\* A parse that checks that the path exists but keeps it as it was typed.
ParseLineRaw(line, dir) ==
    LET selected_path_relative == FromStr(Trim(line))
        c == Canonicalize(selected_path_relative.path, dir)
    IN  [ok |-> c.ok,
         sp |-> SelectedPath(dir \o SelectSeq(Segments(selected_path_relative.path),
                                               LAMBDA n : n # <<>>),
                             selected_path_relative.recursive),
         err |-> CanonicalizeError(selected_path_relative.path)]

\* The closure of .map(): trim, decode, canonicalize against the working directory.
ParseLine(line, dir) ==
    LET selected_path_relative == FromStr(Trim(line))
        c == Canonicalize(selected_path_relative.path, dir)
    IN  [ok |-> c.ok,
         sp |-> SelectedPath(c.path, selected_path_relative.recursive),
         err |-> CanonicalizeError(selected_path_relative.path)]

\* The outcomes of the counted lines, in line order.
Outcomes(text, dir) ==
    LET kept == SelectSeq(text, Counted)
    IN  [i \in 1..Len(kept) |-> ParseLine(kept[i], dir)]

\* for result in result_iter: Ok goes into the HashSet `paths`.
ParsedPaths(text, dir) == {o.sp : o \in {x \in Range(Outcomes(text, dir)) : x.ok}}

\* for result in result_iter: Err is pushed onto `errors`.
ParsedErrors(text, dir) ==
    LET bad == SelectSeq(Outcomes(text, dir), LAMBDA o : ~o.ok)
    IN  [i \in 1..Len(bad) |-> bad[i].err]

\* diff_paths(&p.path, git_root) for every parsed path.
Relativized(ps) ==
    {[sp |-> p, rel |-> DiffPaths(p.path, GitRoot)] : p \in ps}

\* A relativization against the working directory instead of the repository root.
RelativePathsToCwd(ps) ==
    {SelectedPath(Display(DiffPaths(p.path, cwd).path), p.recursive) : p \in ps}

\* .collect::<Result<HashSet<_>>>(): the relative entries.
RelativePaths(ps) ==
    {SelectedPath(Display(x.rel.path), x.sp.recursive) : x \in Relativized(ps)}

\* ----------------------------------------------------------- the editor

\* The user removes the "# " in front of every suggested line.
Uncomment(buffer) ==
    [i \in 1..Len(buffer) |->
        IF i > Len(HEADER) /\ Len(buffer[i]) >= 2 /\ SubSeq(buffer[i], 1, 2) = <<HASH, SPACE>>
        THEN SubSeq(buffer[i], 3, Len(buffer[i]))
        ELSE buffer[i]]

\* Lines a user may type, relative to the working directory.
LinePool ==
    {<<"d">>, <<STAR, "d">>, <<DOT, SLASH, "d">>, <<"x">>, <<STAR, "y">>,
     <<DOT, DOT, SLASH, "o">>, <<SPACE>>, <<HASH, "d">>, <<SPACE, HASH, "d">>,
     <<SPACE, STAR, "d", SPACE>>}

RECURSIVE SeqsUpTo(_, _)
SeqsUpTo(set, n) ==
    IF n = 0 THEN {<<>>}
    ELSE LET shorter == SeqsUpTo(set, n - 1)
         IN  shorter \cup {Append(s, x) : s \in shorter, x \in set}

\* What the temporary file may hold when the editor exits: the buffer as it
\* was, the buffer with the suggestions uncommented, or lines typed afresh.
EditorOutputs(buffer) == {buffer, Uncomment(buffer)} \cup SeqsUpTo(LinePool, MaxLines)

\* The exit statuses of the editor process: success and failure.
ExitStatuses == {"0", "1"}

\* The runs of the editor: what the file holds and the status of the process.
\* A process that exits with a failure (vim's :cq) leaves a shorter text.
EditorRuns(buffer) ==
    (EditorOutputs(buffer) \X {"0"})
        \cup (({buffer, Uncomment(buffer)} \cup SeqsUpTo(LinePool, MaxLines - 1)) \X {"1"})

codecVars == <<cpc, cin, ctext, cout>>

textVars == <<rpc, rinput, rtext>>

featureVars == <<fpc, fdirs, fsels, flast, fop>>

\* ------------------------------------------------------ the select command

runVars ==
    <<roots, cwd, previous_selection, final_paths, originally_selected_paths,
      canonical_roots, buf, tmpfile, exit_status, result, paths, errors, selection,
      error, failedAt, before, steps>>

selVars == <<configSel, pc, runVars>>

walkVars == <<wpc, wselection, wcwd, wqueue, wentry, witems, wcalls, werror>>

vars == <<selVars, codecVars, walkVars, textVars, featureVars>>

NoSelection == [some |-> FALSE, sel |-> {}]

\* CLI arguments of one invocation.
RootArgs ==
    {<<>>, <<<<"d">>>>, <<<<"x">>>>, <<<<"t">>>>, <<<<DOT>>>>, <<<<"d">>, <<SLASH, "o">>>>,
     <<<<"d">>, <<"x">>>>}

\* Working directories inside the repository.
Cwds == {<<R>>, <<R, D>>}

Fresh ==
    /\ roots = <<>>
    /\ cwd = GitRoot
    /\ previous_selection = NoSelection
    /\ final_paths = {}
    /\ originally_selected_paths = {}
    /\ canonical_roots = <<>>
    /\ buf = <<>>
    /\ tmpfile = "none"
    /\ exit_status = "none"
    /\ result = <<>>
    /\ paths = {}
    /\ errors = <<>>
    /\ selection = {}
    /\ error = <<>>
    /\ failedAt = "none"
    /\ steps = <<>>

CodecIdle ==
    /\ cpc = "off"
    /\ cin = SelectedPath(<<>>, TRUE)
    /\ ctext = <<>>
    /\ cout = SelectedPath(<<>>, TRUE)

WalkIdle ==
    /\ wpc = "off"
    /\ wselection = {}
    /\ wcwd = GitRoot
    /\ wqueue = <<>>
    /\ wentry = SelectedPath(<<>>, TRUE)
    /\ witems = <<>>
    /\ wcalls = <<>>
    /\ werror = <<>>

TextIdle ==
    /\ rpc = "off"
    /\ rinput = <<>>
    /\ rtext = <<>>

FeaturesIdle ==
    /\ fpc = "off"
    /\ fdirs = {}
    /\ fsels = {}
    /\ flast = <<>>
    /\ fop = <<>>

SelIdle ==
    /\ configSel = [some |-> FALSE, stored |-> {}]
    /\ pc = "Off"
    /\ before = configSel
    /\ Fresh

Init ==
    /\ configSel = [some |-> FALSE, stored |-> {}]
    /\ pc = "Idle"
    /\ before = configSel
    /\ Fresh
    /\ CodecIdle
    /\ WalkIdle
    /\ TextIdle
    /\ FeaturesIdle

\* Sel::run, first lines: Config::read, git::repo_root, config.selection.take()
\* (the feature command's Select::run has the same shape).
Begin ==
    /\ pc = "Idle"
    /\ UNCHANGED <<codecVars, walkVars, textVars, featureVars>>
    /\ \E rs \in RootArgs, dir \in Cwds :
        /\ roots' = rs
        /\ cwd' = dir
    /\ previous_selection' = [some |-> configSel.some, sel |-> ReadSelection(configSel.stored)]
    /\ before' = configSel
    /\ steps' = <<"Start">>
    /\ pc' = "Start"
    /\ UNCHANGED <<configSel, final_paths, originally_selected_paths, canonical_roots,
                   buf, tmpfile, exit_status,
                   result, paths, errors, selection, error, failedAt>>

\* interactive_selection, steps 1 and 2: the persisted entries become the map,
\* the CLI roots are canonicalized and inserted.
ResolveRoots ==
    /\ pc = "Start"
    /\ UNCHANGED <<codecVars, walkVars, textVars, featureVars>>
    /\ \E loaded \in LoadChoices(previous_selection.sel) :
        LET cr == CanonicalizeRoots(roots, cwd, <<>>)
        IN  /\ originally_selected_paths' = Keys(loaded)
            /\ IF cr.ok
               THEN /\ canonical_roots' = cr.paths
                    /\ final_paths' = InsertAll(loaded, cr.paths)
                    /\ pc' = "RootsResolved"
                    /\ steps' = Append(steps, "RootsResolved")
                    /\ UNCHANGED <<error, failedAt>>
               ELSE /\ canonical_roots' = <<>>
                    /\ final_paths' = loaded
                    /\ error' = WrapErr(<<Msg("io", <<>>)>>, Msg("Failed to find path", cr.bad))
                    /\ failedAt' = "roots"
                    /\ pc' = "Failed"
                    /\ UNCHANGED steps
    /\ UNCHANGED <<configSel, roots, cwd, previous_selection, buf, tmpfile, exit_status,
                   result,
                   paths, errors, selection, before>>

\* A discovery that goes on to the editor with an empty candidate set.
DiscoverNoEarlyReturn ==
    /\ pc = "RootsResolved"
    /\ UNCHANGED <<codecVars, walkVars, textVars, featureVars>>
    /\ \/ /\ canonical_roots # <<>>
          /\ error' = WrapErr(<<Msg("io", <<>>)>>, Msg("failed to walk directories", <<>>))
          /\ failedAt' = "walk"
          /\ pc' = "Failed"
          /\ UNCHANGED <<final_paths, selection, steps>>
       \/ /\ final_paths' = InsertAll(final_paths, SelectSeq(Walk(canonical_roots, FALSE), IsDir))
          /\ pc' = "CandidatesDiscovered"
          /\ steps' = Append(steps, "CandidatesDiscovered")
          /\ selection' = {}
          /\ UNCHANGED <<error, failedAt>>
    /\ UNCHANGED <<configSel, roots, cwd, previous_selection, originally_selected_paths,
                   canonical_roots, buf, tmpfile, exit_status, result, paths, errors, before>>

\* interactive_selection, step 3: the walk over the canonical roots, and the
\* early return when nothing is selected or suggested.
Discover ==
    /\ pc = "RootsResolved"
    /\ UNCHANGED <<codecVars, walkVars, textVars, featureVars>>
    /\ \/ /\ canonical_roots # <<>>
          /\ error' = WrapErr(<<Msg("io", <<>>)>>, Msg("failed to walk directories", <<>>))
          /\ failedAt' = "walk"
          /\ pc' = "Failed"
          /\ UNCHANGED <<final_paths, selection, steps>>
       \/ LET found == InsertAll(final_paths, SelectSeq(Walk(canonical_roots, FALSE), IsDir))
          IN  /\ final_paths' = found
              /\ pc' = IF found = {} THEN "Selected" ELSE "CandidatesDiscovered"
              /\ steps' = Append(steps, "CandidatesDiscovered")
              /\ selection' = {}
              /\ UNCHANGED <<error, failedAt>>
    /\ UNCHANGED <<configSel, roots, cwd, previous_selection, originally_selected_paths,
                   canonical_roots, buf, tmpfile, exit_status,
                   result, paths, errors, before>>

\* interactive_selection, step 4: the buffer.
Render ==
    /\ pc = "CandidatesDiscovered"
    /\ UNCHANGED <<codecVars, walkVars, textVars, featureVars>>
    /\ LET r == RenderBuffer(final_paths, originally_selected_paths, cwd)
       IN  IF r.ok
           THEN /\ buf' = r.buf
                /\ pc' = "BufferRendered"
                /\ steps' = Append(steps, "BufferRendered")
                /\ UNCHANGED <<error, failedAt>>
           ELSE /\ error' = <<Msg("failed to construct relative path for", r.bad)>>
                /\ failedAt' = "render"
                /\ pc' = "Failed"
                /\ UNCHANGED <<buf, steps>>
    /\ UNCHANGED <<configSel, roots, cwd, previous_selection, final_paths,
                   originally_selected_paths, canonical_roots, tmpfile, exit_status,
                   result, paths,
                   errors, selection, before>>

\* The ways editor::get_user_input_from_file_content returns an error.
EditorFailures ==
    {"failed to create a temporary file", "failed to write to temporary file",
     "failed to start editor", "failed to wait for editor", "failed to read temporary file"}

\* A temporary file that is removed by hand after the file was read back.
TempFileRemovedAfterRead(why) ==
    IF why = "failed to create a temporary file" THEN "none"
    ELSE IF why = "returned" THEN "removed"
    ELSE "exists"

\* The temporary file when get_user_input_from_file_content returns: `file` is a
\* local NamedTempFile, dropped (and with it the file removed) on every return
\* after its creation, by `?` as well as at the end.
TempFileAfter(why) ==
    IF why = "failed to create a temporary file" THEN "none" ELSE "removed"

\* A step that treats an editor that exits with a failure status as a failed edit.
EditorChecksStatus ==
    /\ pc = "BufferRendered"
    /\ UNCHANGED <<codecVars, walkVars, textVars, featureVars>>
    /\ \/ \E text \in EditorOutputs(buf) :
            /\ result' = text
            /\ exit_status' = "0"
            /\ tmpfile' = TempFileAfter("returned")
            /\ pc' = "Edited"
            /\ steps' = Append(steps, "Edited")
            /\ UNCHANGED <<error, failedAt>>
       \/ \E why \in EditorFailures \cup {"editor exited with a failure"} :
            /\ error' = WrapErr(<<Msg("io", <<>>)>>, Msg(why, <<>>))
            /\ failedAt' = "editor"
            /\ tmpfile' = TempFileAfter(why)
            /\ exit_status' \in (IF why = "failed to read temporary file" THEN ExitStatuses
                                 ELSE IF why = "editor exited with a failure" THEN {"1"}
                                 ELSE {"none"})
            /\ pc' = "Failed"
            /\ UNCHANGED <<result, steps>>
    /\ UNCHANGED <<configSel, roots, cwd, previous_selection, final_paths,
                   originally_selected_paths, canonical_roots, buf, paths, errors,
                   selection, before>>

\* editor::get_user_input_from_file_content: the temporary file is created,
\* written, edited and read back; it is removed when `file` is dropped.
\* open_in_vim drops the ExitStatus that wait() returns.
Editor ==
    /\ pc = "BufferRendered"
    /\ UNCHANGED <<codecVars, walkVars, textVars, featureVars>>
    /\ \/ \E run \in EditorRuns(buf) :
            /\ result' = run[1]
            /\ exit_status' = run[2]
            /\ tmpfile' = TempFileAfter("returned")
            /\ pc' = "Edited"
            /\ steps' = Append(steps, "Edited")
            /\ UNCHANGED <<error, failedAt>>
       \/ \E why \in EditorFailures :
            /\ error' = WrapErr(<<Msg("io", <<>>)>>, Msg(why, <<>>))
            /\ failedAt' = "editor"
            /\ tmpfile' = TempFileAfter(why)
            /\ exit_status' \in (IF why = "failed to read temporary file" THEN ExitStatuses
                                 ELSE {"none"})
            /\ pc' = "Failed"
            /\ UNCHANGED <<result, steps>>
    /\ UNCHANGED <<configSel, roots, cwd, previous_selection, final_paths,
                   originally_selected_paths, canonical_roots, buf, paths, errors,
                   selection, before>>

\* A parse that sends the user back to the editor when a line cannot be resolved.
ParseRetry ==
    /\ pc = "Edited"
    /\ UNCHANGED <<codecVars, walkVars, textVars, featureVars>>
    /\ paths' = ParsedPaths(result, cwd)
    /\ errors' = ParsedErrors(result, cwd)
    /\ IF errors' = <<>>
       THEN /\ pc' = "Parsed"
            /\ steps' = Append(steps, "Parsed")
       ELSE /\ pc' = "BufferRendered"
            /\ UNCHANGED steps
    /\ UNCHANGED <<configSel, roots, cwd, previous_selection, final_paths,
                   originally_selected_paths, canonical_roots, buf, tmpfile, exit_status,
                   result, selection, error, failedAt, before>>

\* A parse that takes an output without any path for a mistake of the user.
ParseRejectEmpty ==
    /\ pc = "Edited"
    /\ UNCHANGED <<codecVars, walkVars, textVars, featureVars>>
    /\ paths' = ParsedPaths(result, cwd)
    /\ errors' = ParsedErrors(result, cwd)
    /\ IF errors' = <<>> /\ paths' # {}
       THEN /\ pc' = "Parsed"
            /\ steps' = Append(steps, "Parsed")
            /\ UNCHANGED <<error, failedAt>>
       ELSE /\ error' = IF errors' = <<>> THEN <<Msg("nothing selected", <<>>)>>
                        ELSE AggregateErrors(errors')
            /\ failedAt' = "parse"
            /\ pc' = "Failed"
            /\ UNCHANGED steps
    /\ UNCHANGED <<configSel, roots, cwd, previous_selection, final_paths,
                   originally_selected_paths, canonical_roots, buf, tmpfile, exit_status,
                   result,
                   selection, before>>

\* interactive_selection, step 5: every counted line is parsed; the errors are
\* collected and, if there are any, returned as one Report.
Parse ==
    /\ pc = "Edited"
    /\ UNCHANGED <<codecVars, walkVars, textVars, featureVars>>
    /\ paths' = ParsedPaths(result, cwd)
    /\ errors' = ParsedErrors(result, cwd)
    /\ IF errors' = <<>>
       THEN /\ pc' = "Parsed"
            /\ steps' = Append(steps, "Parsed")
            /\ UNCHANGED <<error, failedAt>>
       ELSE /\ error' = AggregateErrors(errors')
            /\ failedAt' = "parse"
            /\ pc' = "Failed"
            /\ UNCHANGED steps
    /\ UNCHANGED <<configSel, roots, cwd, previous_selection, final_paths,
                   originally_selected_paths, canonical_roots, buf, tmpfile, exit_status,
                   result,
                   selection, before>>

\* interactive_selection, last step: the parsed paths relative to the repository root.
Relativize ==
    /\ pc = "Parsed"
    /\ UNCHANGED <<codecVars, walkVars, textVars, featureVars>>
    /\ LET bad == {x \in Relativized(paths) : ~x.rel.some}
       IN  IF bad = {}
           THEN /\ selection' = RelativePaths(paths)
                /\ pc' = "Selected"
                /\ steps' = Append(steps, "Selected")
                /\ UNCHANGED <<error, failedAt>>
           ELSE /\ \E x \in bad :
                    error' = WrapErr(<<Msg("failed to construct relative path for", x.sp.path)>>,
                                     Msg("failed to convert absolute paths to relative paths", <<>>))
                /\ failedAt' = "relativize"
                /\ pc' = "Failed"
                /\ UNCHANGED <<selection, steps>>
    /\ UNCHANGED <<configSel, roots, cwd, previous_selection, final_paths,
                   originally_selected_paths, canonical_roots, buf, tmpfile, exit_status,
                   result,
                   paths, errors, before>>

\* A command that adds the new entries to the stored ones instead of replacing them.
WritePatched ==
    /\ pc = "Selected"
    /\ UNCHANGED <<codecVars, walkVars, textVars, featureVars>>
    /\ configSel' = [some |-> TRUE, stored |-> configSel.stored \cup WriteSelection(selection)]
    /\ pc' = "Done"
    /\ steps' = Append(steps, "Done")
    /\ UNCHANGED <<roots, cwd, previous_selection, final_paths, originally_selected_paths,
                   canonical_roots, buf, tmpfile, exit_status,
                   result, paths, errors, selection,
                   error, failedAt, before>>

\* A command that writes the config whether or not the reconciliation failed.
WriteEvenAfterFailure ==
    /\ pc \in {"Selected", "Failed"}
    /\ UNCHANGED <<codecVars, walkVars, textVars, featureVars>>
    /\ configSel' = [some |-> TRUE, stored |-> WriteSelection(selection)]
    /\ pc' = "Done"
    /\ steps' = Append(steps, "Done")
    /\ UNCHANGED <<roots, cwd, previous_selection, final_paths, originally_selected_paths,
                   canonical_roots, buf, tmpfile, exit_status,
                   result, paths, errors, selection,
                   error, failedAt, before>>

\* Sel::run, last lines: config.selection.replace(selection); config.write();
\* reached only when the reconciliation returned Ok.
Write ==
    /\ pc = "Selected"
    /\ UNCHANGED <<codecVars, walkVars, textVars, featureVars>>
    /\ configSel' = [some |-> TRUE, stored |-> WriteSelection(selection)]
    /\ pc' = "Done"
    /\ steps' = Append(steps, "Done")
    /\ UNCHANGED <<roots, cwd, previous_selection, final_paths, originally_selected_paths,
                   canonical_roots, buf, tmpfile, exit_status,
                   result, paths, errors, selection,
                   error, failedAt, before>>

\* The process exits; the next invocation starts afresh.
Exit ==
    /\ pc \in {"Done", "Failed"}
    /\ UNCHANGED <<codecVars, walkVars, textVars, featureVars>>
    /\ pc' = "Idle"
    /\ before' = configSel
    /\ roots' = <<>>
    /\ cwd' = GitRoot
    /\ previous_selection' = NoSelection
    /\ final_paths' = {}
    /\ originally_selected_paths' = {}
    /\ canonical_roots' = <<>>
    /\ buf' = <<>>
    /\ tmpfile' = "none"
    /\ exit_status' = "none"
    /\ result' = <<>>
    /\ paths' = {}
    /\ errors' = <<>>
    /\ selection' = {}
    /\ error' = <<>>
    /\ failedAt' = "none"
    /\ steps' = <<>>
    /\ UNCHANGED configSel

Next ==
    \/ Begin
    \/ ResolveRoots
    \/ Discover
    \/ Render
    \/ Editor
    \/ Parse
    \/ Relativize
    \/ Write
    \/ Exit

Spec == Init /\ [][Next]_vars

\* ------------------------------------------------- properties of the merge

\* The flags the persisted selection holds for the key k.
PersistedFlags(k) == {e.recursive : e \in {x \in JoinedEntries(previous_selection.sel) : x.path = k}}

Merged == pc \in {"CandidatesDiscovered", "BufferRendered", "Edited", "Parsed"}

\* C2: after the CLI roots and the discovered directories are merged in, every
\* persisted path has exactly one candidate and it carries a flag the persisted
\* selection holds for that path (a persisted non-recursive entry stays
\* non-recursive, also when it is a CLI root or rediscovered); every candidate
\* that is not a persisted path is recursive.
C2_FlagsKept ==
    Merged =>
        /\ \A k \in originally_selected_paths :
              /\ Cardinality({e \in final_paths : e.path = k}) = 1
              /\ \A e \in final_paths : e.path = k => e.recursive \in PersistedFlags(k)
        /\ \A e \in final_paths : e.path \notin originally_selected_paths => e.recursive

\* *d is persisted, the CLI root "." rediscovers d as a subdirectory and adds d/s.
C2_Witness ==
    /\ pc = "CandidatesDiscovered"
    /\ previous_selection.sel = {SelectedPath(D, FALSE)}
    /\ canonical_roots = <<<<R>>>>
    /\ SelectedPath(<<R, D>>, FALSE) \in final_paths
    /\ SelectedPath(<<R, D, S>>, TRUE) \in final_paths

\* ------------------------------------------------------------ idempotence

\* One whole reconciliation with an editor that returns the buffer unchanged:
\* the outcomes, one for each way the HashMap may be loaded.
EchoRun(stored, rs, dir) ==
    {LET cr == CanonicalizeRoots(rs, dir, <<>>)
         fp == InsertAll(InsertAll(loaded, cr.paths), SelectSeq(Walk(cr.paths, FALSE), IsDir))
         r == RenderBuffer(fp, Keys(loaded), dir)
     IN  IF ~cr.ok THEN [ok |-> FALSE, sel |-> {}]
         ELSE IF fp = {} THEN [ok |-> TRUE, sel |-> {}]
         ELSE IF ~r.ok \/ ParsedErrors(r.buf, dir) # <<>> THEN [ok |-> FALSE, sel |-> {}]
         ELSE [ok |-> TRUE, sel |-> RelativePaths(ParsedPaths(r.buf, dir))]
     : loaded \in LoadChoices(ReadSelection(stored))}

Echoed == pc = "Done" /\ result = buf

\* C3: when a run whose editor echoed the buffer has persisted its result, a
\* second run with the same roots, filesystem and working directory and an
\* echoing editor returns that same Selection.
C3_Idempotent ==
    Echoed => EchoRun(configSel.stored, roots, cwd) = {[ok |-> TRUE, sel |-> selection]}

\* An echoing run that kept a non-recursive entry while a root suggested others.
C3_Witness ==
    /\ Echoed
    /\ selection = {SelectedPath(D, FALSE)}
    /\ canonical_roots = <<<<R>>>>
    /\ Len(buf) > Len(HEADER) + 2

\* ------------------------------------------------------- the echoed buffer

PersistedExist == \A e \in JoinedEntries(previous_selection.sel) : Exists(e.path)

OnePerPath(sel) == \A a \in sel, b \in sel : a.path = b.path => a = b

\* C4: with persisted paths that all exist, no CLI roots and an echoing editor,
\* the run succeeds, the buffer has one uncommented line per persisted entry
\* and no suggestion, and the returned Selection equals the persisted one.
C4_EchoKeepsSelection ==
    (/\ pc \in {"Selected", "Done", "Failed"}
     /\ failedAt \notin {"editor"}
     /\ roots = <<>>
     /\ result = buf
     /\ PersistedExist
     /\ OnePerPath(previous_selection.sel))
    => /\ pc # "Failed"
       /\ selection = previous_selection.sel
       /\ (previous_selection.sel # {} =>
             /\ Len(SelectSeq(buf, Counted)) = Cardinality(previous_selection.sel)
             /\ Len(buf) = Len(HEADER) + Cardinality(previous_selection.sel))

\* ------------------------------------------------------- parse failures

\* The path texts of the counted lines that fail canonicalization, in line order.
FailingPaths(text, dir) ==
    LET decoded == [i \in 1..Len(SelectSeq(text, Counted)) |->
                       FromStr(Trim(SelectSeq(text, Counted)[i])).path]
    IN  SelectSeq(decoded, LAMBDA q : ~Canonicalize(q, dir).ok)

\* The paths named by the canonicalization messages of a report, outermost first.
ReportedPaths(report) ==
    LET ms == SelectSeq(report, LAMBDA m : m.msg = "failed to canonicalize")
    IN  [i \in 1..Len(ms) |-> ms[i].path]

Reverse(s) == [i \in 1..Len(s) |-> s[Len(s) + 1 - i]]

\* C5: when lines fail canonicalization the run fails, and the report holds one
\* canonicalization message per failing line, naming each failing line's path.
C5_AllErrorsReported ==
    (pc \in {"Parsed", "Selected", "Done", "Failed"} /\ failedAt \notin {"roots", "walk", "render", "editor"}
     /\ FailingPaths(result, cwd) # <<>>)
    => /\ pc = "Failed"
       /\ failedAt = "parse"
       /\ \/ ReportedPaths(error) = FailingPaths(result, cwd)
          \/ ReportedPaths(error) = Reverse(FailingPaths(result, cwd))

\* Two different failing lines, both reported.
C5_Witness ==
    /\ pc = "Failed"
    /\ failedAt = "parse"
    /\ result = <<<<"x">>, <<STAR, "y">>>>
    /\ Len(ReportedPaths(error)) = 2

\* C6: a run that fails, at whatever step, writes no config: select.toml is
\* what it was when the command started.
C6_NoWriteOnFailure == failedAt # "none" => configSel = before

\* A parse that failed on one line and succeeded on another, with a selection on disk.
C6_Witness ==
    /\ pc = "Failed"
    /\ failedAt = "parse"
    /\ errors # <<>>
    /\ paths # {}
    /\ configSel.some
    /\ configSel.stored # {}

\* C7: a Selection returned by the reconciliation holds at most one entry per path.
C7_OneEntryPerPath == pc \in {"Selected", "Done"} => OnePerPath(selection)

\* ---------------------------------------------------- paths outside the repo

Inside(p) == Len(p) >= Len(GitRoot) /\ SubSeq(p, 1, Len(GitRoot)) = GitRoot

OutsidePaths == {sp \in paths : ~Inside(sp.path)}

RECURSIVE CommonPrefixLen(_, _)
CommonPrefixLen(a, b) ==
    IF a = <<>> \/ b = <<>> \/ Head(a) # Head(b) THEN 0
    ELSE 1 + CommonPrefixLen(Tail(a), Tail(b))

\* The way from the repository root to p: up to the common ancestor, then down.
UpAndDown(p) ==
    LET n == CommonPrefixLen(p, GitRoot)
    IN  [i \in 1..(Len(GitRoot) - n) |-> PARENT] \o SubSeq(p, n + 1, Len(p))

AfterParse == pc \in {"Selected", "Done", "Failed"} /\ failedAt \in {"none", "relativize"} /\ steps # <<>> /\ steps[Len(steps)] # "CandidatesDiscovered"

\* C8 as stated: a line resolving to an existing path outside the repository
\* makes the reconciliation fail with a relativization error naming the path.
C8_OutsideFails ==
    (AfterParse /\ OutsidePaths # {})
    => /\ pc = "Failed"
       /\ failedAt = "relativize"
       /\ \E sp \in OutsidePaths : Msg("failed to construct relative path for", sp.path) \in Range(error)

\* C8 as the code has it: a line resolving to an existing path outside the
\* repository does not fail; the path is stored relative to the repository
\* root, climbing with ".." components.
C8_OutsideStoredWithParentDirs ==
    (AfterParse /\ OutsidePaths # {})
    => /\ pc # "Failed"
       /\ \A sp \in OutsidePaths :
             SelectedPath(Display(UpAndDown(sp.path)), sp.recursive) \in selection

C8_Witness ==
    /\ pc = "Done"
    /\ SelectedPath(<<O>>, TRUE) \in paths
    /\ SelectedPath(<<DOT, DOT, SLASH, "o">>, TRUE) \in selection
    /\ <<DOT, DOT, SLASH, "o">> \in configSel.stored

\* --------------------------------------------------------- deduplication

\* What a counted line denotes: the existing path it resolves to and its flag.
Denotes(line, dir) ==
    <<Canonicalize(FromStr(Trim(line)).path, dir).path, ~StartsWith(Trim(line), STAR)>>

Denoted(text, dir) == {Denotes(l, dir) : l \in Range(SelectSeq(text, Counted))}

\* C9: on a successful parse the Selection has exactly one entry for each
\* (canonical path, recursive) pair the counted lines denote: lines denoting the
\* same pair share an entry, different pairs have different entries.
C9_Deduplicated ==
    (pc \in {"Selected", "Done"} /\ "Parsed" \in Range(steps))
    => /\ Cardinality(selection) = Cardinality(Denoted(result, cwd))
       /\ \A l \in Range(SelectSeq(result, Counted)) :
             SelectedPath(Display(UpAndDown(Denotes(l, cwd)[1])), Denotes(l, cwd)[2]) \in selection

\* "d" and "./d" give one entry.
C9_Witness ==
    /\ pc = "Selected"
    /\ result = <<<<"d">>, <<DOT, SLASH, "d">>>>
    /\ selection = {SelectedPath(D, TRUE)}

\* "d" and "*d" give two.
C9_WitnessDistinct ==
    /\ pc = "Selected"
    /\ result = <<<<"d">>, <<STAR, "d">>>>
    /\ Cardinality(selection) = 2

\* ------------------------------------------------------------- expansion

\* Path texts an expanded Selection may hold, relative to the repository root:
\* directories, a file, a directory that is gone, an ignored directory and a
\* directory outside the repository.
WalkPathTexts ==
    {<<"d">>, <<"d", SLASH, "s">>, <<"d", SLASH, "a">>, <<"d", SLASH, DOT, "h">>, <<"x">>,
     <<"t">>, <<DOT, DOT, SLASH, "o">>}

WalkSelections ==
    {s \in SUBSET {SelectedPath(p, r) : p \in WalkPathTexts, r \in BOOLEAN} :
        Cardinality(s) <= MaxEntries}

\* Every order in which a HashSet may hand out its elements.
Orders(set) ==
    {q \in [1..Cardinality(set) -> set] : \A i, j \in 1..Cardinality(set) : q[i] = q[j] => i = j}

\* if !selected_path.recursive { walk_builder.max_depth(Some(1)); } inverted.
MaxDepthOneInverted(selected_path) == selected_path.recursive

\* if !selected_path.recursive { walk_builder.max_depth(Some(1)); }
MaxDepthOne(selected_path) == ~selected_path.recursive

\* A walk that yields what lies below its root and never the root itself.
WalkItemsBelowRoot(selected_path) ==
    IF Exists(Real(selected_path.path))
    THEN LET found == Tail(WalkFrom(selected_path.path, 0, MaxDepthOne(selected_path)))
         IN  [i \in 1..Len(found) |-> [ok |-> TRUE, path |-> found[i]]]
    ELSE <<[ok |-> FALSE, path |-> selected_path.path]>>

\* walk_builder.build() for one selected path: its entries, or the error of a
\* root that cannot be read.
WalkItems(selected_path) ==
    IF Exists(Real(selected_path.path))
    THEN LET found == WalkFrom(selected_path.path, 0, MaxDepthOne(selected_path))
         IN  [i \in 1..Len(found) |-> [ok |-> TRUE, path |-> found[i]]]
    ELSE <<[ok |-> FALSE, path |-> selected_path.path]>>

WalkInit ==
    /\ wpc = "new"
    /\ wselection \in WalkSelections
    /\ wcwd \in Cwds
    /\ wqueue = <<>>
    /\ wentry = SelectedPath(<<>>, TRUE)
    /\ witems = <<>>
    /\ wcalls = <<>>
    /\ werror = <<>>
    /\ SelIdle
    /\ CodecIdle
    /\ TextIdle
    /\ FeaturesIdle

\* walk_selected_files, first lines: the entries made absolute, collected into
\* a Vec in the iteration order of the HashSet.
WalkBegin ==
    /\ wpc = "new"
    /\ UNCHANGED <<selVars, codecVars, textVars, featureVars>>
    /\ wqueue' \in Orders({SelectedPath(Join(GitRoot, e.path), e.recursive) : e \in wselection})
    /\ wpc' = "entries"
    /\ UNCHANGED <<wselection, wcwd, wentry, witems, wcalls, werror>>

\* for selected_path in selected_paths: the walker is built.
NextEntry ==
    /\ wpc = "entries"
    /\ UNCHANGED <<selVars, codecVars, textVars, featureVars>>
    /\ wqueue # <<>>
    /\ wentry' = Head(wqueue)
    /\ wqueue' = Tail(wqueue)
    /\ witems' = WalkItems(Head(wqueue))
    /\ wpc' = "items"
    /\ UNCHANGED <<wselection, wcwd, wcalls, werror>>

\* A loop that puts up with failures: it passes over an item that cannot be
\* walked and goes on after a callback that returned an error.
VisitItemKeepGoing ==
    /\ wpc = "items"
    /\ UNCHANGED <<selVars, codecVars, textVars, featureVars>>
    /\ witems # <<>>
    /\ LET item == Head(witems)
           rel == DiffPaths(item.path, wcwd)
       IN  IF ~item.ok \/ ~IsFile(item.path) \/ ~rel.some
           THEN /\ witems' = Tail(witems)
                /\ UNCHANGED <<wpc, wcalls, werror>>
           ELSE \E ok \in BOOLEAN :
                   /\ wcalls' = Append(wcalls, [abs |-> item.path, rel |-> rel.path,
                                                entry |-> wentry, ok |-> ok])
                   /\ witems' = Tail(witems)
                   /\ UNCHANGED <<wpc, werror>>
    /\ UNCHANGED <<wselection, wcwd, wqueue, wentry>>

\* for result in walk_builder.build(): one item; a regular file goes to on_file,
\* which may fail.
VisitItem ==
    /\ wpc = "items"
    /\ UNCHANGED <<selVars, codecVars, textVars, featureVars>>
    /\ witems # <<>>
    /\ LET item == Head(witems)
           rel == DiffPaths(item.path, wcwd)
       IN  IF ~item.ok
           THEN /\ werror' = WrapErr(<<Msg("io", item.path)>>, Msg("failed to walk directories", <<>>))
                /\ wpc' = "failed"
                /\ UNCHANGED <<witems, wcalls>>
           ELSE IF ~IsFile(item.path)
           THEN /\ witems' = Tail(witems)
                /\ UNCHANGED <<wpc, wcalls, werror>>
           ELSE IF ~rel.some
           THEN /\ werror' = <<Msg("failed to construct relative path for", item.path)>>
                /\ wpc' = "failed"
                /\ UNCHANGED <<witems, wcalls>>
           ELSE \/ /\ wcalls' = Append(wcalls, [abs |-> item.path, rel |-> rel.path,
                                                entry |-> wentry, ok |-> TRUE])
                   /\ witems' = Tail(witems)
                   /\ UNCHANGED <<wpc, werror>>
                \/ /\ wcalls' = Append(wcalls, [abs |-> item.path, rel |-> rel.path,
                                                entry |-> wentry, ok |-> FALSE])
                   /\ werror' = <<Msg("on_file", item.path)>>
                   /\ wpc' = "failed"
                   /\ UNCHANGED witems
    /\ UNCHANGED <<wselection, wcwd, wqueue, wentry>>

\* The walk of one selected path is exhausted.
EntryDone ==
    /\ wpc = "items"
    /\ UNCHANGED <<selVars, codecVars, textVars, featureVars>>
    /\ witems = <<>>
    /\ wpc' = "entries"
    /\ UNCHANGED <<wselection, wcwd, wqueue, wentry, witems, wcalls, werror>>

\* Ok(())
WalkEnd ==
    /\ wpc = "entries"
    /\ UNCHANGED <<selVars, codecVars, textVars, featureVars>>
    /\ wqueue = <<>>
    /\ wpc' = "done"
    /\ UNCHANGED <<wselection, wcwd, wqueue, wentry, witems, wcalls, werror>>

WalkNext == WalkBegin \/ NextEntry \/ VisitItem \/ EntryDone \/ WalkEnd

SpecWalk == WalkInit /\ [][WalkNext]_vars

\* The regular files below the directory d that the ignore rules leave to a
\* walk of d: no rule matches the file or a directory between d and the file.
NonIgnoredBelow(d) ==
    {f \in Files :
        /\ Len(f) > Len(d)
        /\ SubSeq(f, 1, Len(d)) = d
        /\ \A k \in (Len(d) + 1)..Len(f) : SubSeq(f, 1, k) \notin IgnoredPaths}

\* Those of them that are not hidden and lie in no hidden directory below d.
VisibleBelow(d) ==
    {f \in NonIgnoredBelow(d) : \A k \in (Len(d) + 1)..Len(f) : ~Hidden(f[k])}

DirectChildren(d, files) == {f \in files : Len(f) = Len(d) + 1}

CallsFor(entry) == SelectSeq(wcalls, LAMBDA c : c.entry = entry)

PassedFor(entry) == {Real(c.abs) : c \in Range(CallsFor(entry))}

\* The entries whose walk has ended without a failure.
Walked ==
    {SelectedPath(Join(GitRoot, e.path), e.recursive) : e \in wselection}
        \ (Range(wqueue) \cup (IF wpc \in {"items", "failed"} THEN {wentry} ELSE {}))

WalkedDirs == IF wpc = "new" THEN {} ELSE {entry \in Walked : IsDir(entry.path)}

\* C10 as stated: the expansion of an entry for a directory d passes to the
\* callback exactly the non-ignored regular files that are direct children of d
\* when the entry is non-recursive, and exactly the non-ignored regular files
\* at any depth below d when it is recursive.
C10_ExactlyNonIgnored ==
    \A entry \in WalkedDirs :
        PassedFor(entry) =
            IF entry.recursive THEN NonIgnoredBelow(Real(entry.path))
            ELSE DirectChildren(Real(entry.path), NonIgnoredBelow(Real(entry.path)))

\* C10 as the code has it: the expansion of an entry for a directory d passes
\* to the callback, each once, exactly the regular files below d (direct
\* children when the entry is non-recursive, any depth when it is recursive)
\* that are neither ignored nor hidden and lie in no ignored or hidden
\* directory below d.
C10_ExpansionFiles ==
    \A entry \in WalkedDirs :
        LET expected == IF entry.recursive THEN VisibleBelow(Real(entry.path))
                        ELSE DirectChildren(Real(entry.path), VisibleBelow(Real(entry.path)))
        IN  /\ PassedFor(entry) = expected
            /\ Len(CallsFor(entry)) = Cardinality(expected)

\* d holds a, s/b, the hidden .h and .g/f: *d yields d/a only, d yields d/a and
\* d/s/b.
C10_Witness ==
    /\ wpc = "done"
    /\ SelectedPath(<<"d">>, FALSE) \in wselection
    /\ SelectedPath(<<"d">>, TRUE) \in wselection
    /\ {c.abs : c \in Range(CallsFor(SelectedPath(<<R, D>>, FALSE)))} = {<<R, D, A>>}
    /\ {c.abs : c \in Range(CallsFor(SelectedPath(<<R, D>>, TRUE)))} = {<<R, D, A>>, <<R, D, S, B>>}

\* ------------------------------------------------------ discovery pruning

\* The directories the walk of step 3 has added to the candidates.
Discovered ==
    IF pc \in {"CandidatesDiscovered", "BufferRendered", "Edited", "Parsed"}
    THEN Keys(final_paths) \ (originally_selected_paths \cup Range(canonical_roots))
    ELSE {}

\* A path the ignore rules exclude: a rule matches it or a directory above it.
Ignored(p) == \E k \in 1..Len(p) : SubSeq(p, 1, k) \in IgnoredPaths

\* q lies below the root and the walk from the root skips nothing on the way
\* to it.
ReachedFrom(root, q) ==
    /\ Len(q) > Len(root)
    /\ SubSeq(q, 1, Len(root)) = root
    /\ \A k \in (Len(root) + 1)..Len(q) :
          SubSeq(q, 1, k) \notin IgnoredPaths /\ ~Hidden(q[k])

\* C12 as stated: discovery never adds a directory that an ignore rule excludes,
\* nor a descendant of such a directory.
C12_NeverIgnored == \A q \in Discovered : ~Ignored(q)

\* C12 as the code has it: every directory discovery adds is reached from a
\* walked root without passing an ignored directory below that root; the root
\* itself is never filtered.
C12_PrunedBelowRoots ==
    \A q \in Discovered : \E i \in 1..Len(canonical_roots) : ReachedFrom(canonical_roots[i], q)

\* The walk from the repository root finds d and d/s and prunes t with its u.
C12_Witness ==
    /\ pc = "CandidatesDiscovered"
    /\ canonical_roots = <<GitRoot>>
    /\ <<R, D, S>> \in Discovered
    /\ <<R, T>> \notin Keys(final_paths)
    /\ <<R, T, U>> \notin Keys(final_paths)

\* ------------------------------------------------------- roots not found

\* The roots of this invocation that do not canonicalize.
MissingRoots == {i \in 1..Len(roots) : ~Canonicalize(roots[i], cwd).ok}

\* C14: when a root does not canonicalize, the reconciliation fails with an
\* error naming such a root, and nothing has been walked, rendered or edited.
C14_RootNotFound ==
    (pc \notin {"Idle", "Start", "Off"} /\ MissingRoots # {}) =>
        /\ pc = "Failed"
        /\ failedAt = "roots"
        /\ \E i \in MissingRoots : error[1] = Msg("Failed to find path", roots[i])
        /\ steps = <<"Start">>
        /\ Keys(final_paths) = originally_selected_paths
        /\ buf = <<>>
        /\ tmpfile = "none"
        /\ result = <<>>
        /\ selection = {}

C14_Witness ==
    /\ pc = "Failed"
    /\ failedAt = "roots"
    /\ roots = <<<<"d">>, <<"x">>>>
    /\ cwd = GitRoot
    /\ originally_selected_paths # {}

\* ------------------------------------------------------- suggested roots

\* The run got as far as reparsing, and the user had saved the buffer with the
\* comment marker removed from every suggested line.
UncommentedAll ==
    /\ pc \in {"Selected", "Done", "Failed"}
    /\ failedAt \in {"none", "parse", "relativize"}
    /\ buf # <<>>
    /\ result = Uncomment(buf)

\* The roots of this run that the persisted selection does not hold.
NewRoots == {canonical_roots[i] : i \in 1..Len(canonical_roots)} \ originally_selected_paths

SelectedGroup == {e \in final_paths : e.path \in originally_selected_paths}

SuggestedGroup == {e \in final_paths : e.path \notin originally_selected_paths}

SortedTogether(a, b) ==
    /\ pc = "BufferRendered"
    /\ a \in final_paths
    /\ b \in final_paths
    /\ (a \in SelectedGroup <=> b \in SelectedGroup)

\* The textual encoding of an entry.
Encoding(e) == ToString(SelectedPath(Display(e.path), e.recursive))

\* s is a proper prefix of t or has the smaller byte where they first differ.
BytesBefore(s, t) ==
    \E k \in 1..Len(t) :
        /\ k <= Len(s) + 1
        /\ SubSeq(s, 1, k - 1) = SubSeq(t, 1, k - 1)
        /\ (k = Len(s) + 1 \/ Rank(s[k]) < Rank(t[k]))

NameBefore(a, b) ==
    IF a = PARENT THEN b # PARENT ELSE b # PARENT /\ BytesBefore(a, b)

\* p is a proper prefix of q or has the smaller component where they first differ.
PathBefore(p, q) ==
    \E k \in 1..Len(q) :
        /\ k <= Len(p) + 1
        /\ SubSeq(p, 1, k - 1) = SubSeq(q, 1, k - 1)
        /\ (k = Len(p) + 1 \/ NameBefore(p[k], q[k]))

EntryBefore(a, b) ==
    \/ PathBefore(a.path, b.path)
    \/ (a.path = b.path /\ ~a.recursive /\ b.recursive)

\* The lines the buffer holds for the first group and for the second.
SelectedLines == SubSeq(buf, Len(HEADER) + 1, Len(HEADER) + Cardinality(SelectedGroup))

SuggestedLines == SubSeq(buf, Len(buf) - Cardinality(SuggestedGroup) + 1, Len(buf))

\* The position of the line of the entry e among the lines, 0 if it has none.
LineOf(e, lines, prefix) ==
    LET want == prefix \o ToRelativeString(e, cwd).text
        at == {i \in 1..Len(lines) : lines[i] = want}
    IN  IF at = {} THEN 0 ELSE CHOOSE i \in at : TRUE

\* C13 as stated: of two entries sorted together, a is listed before b iff the
\* encoding of a is lexicographically smaller than the encoding of b.
C13_EncodingOrder ==
    \A a, b \in final_paths :
        SortedTogether(a, b) =>
            (SelectedPathLess(a, b) <=> BytesBefore(Encoding(a), Encoding(b)))

\* C13 as the code has it: of two entries sorted together, a is listed before b
\* iff the path of a precedes the path of b component by component, or the
\* paths are equal and a is non-recursive and b recursive.
C13_ComponentOrder ==
    \A a, b \in final_paths :
        (SortedTogether(a, b) /\ a # b) =>
            LET prefix == IF a \in SelectedGroup THEN <<>> ELSE <<HASH, SPACE>>
                lines == IF a \in SelectedGroup THEN SelectedLines ELSE SuggestedLines
            IN  (EntryBefore(a, b) /\ ToRelativeString(a, cwd).text # ToRelativeString(b, cwd).text)
                    => /\ LineOf(a, lines, prefix) > 0
                       /\ LineOf(a, lines, prefix) < LineOf(b, lines, prefix)

\* Two entries sorted together whose encodings order them the other way round.
C13_Witness ==
    \E a, b \in final_paths :
        /\ SortedTogether(a, b)
        /\ EntryBefore(a, b)
        /\ BytesBefore(Encoding(b), Encoding(a))
        /\ LineOf(a, SelectedLines, <<>>) > 0
        /\ LineOf(a, SelectedLines, <<>>) < LineOf(b, SelectedLines, <<>>)

\* ------------------------------------------------- layout of the buffer

\* The persisted paths, joined to the repository root.
PersistedPaths == {Join(GitRoot, sp.path) : sp \in previous_selection.sel}

FirstGroup == {e \in final_paths : e.path \in PersistedPaths}

SecondGroup == final_paths \ FirstGroup

\* The line of a candidate: its path relative to the working directory, encoded.
LineText(e) == ToString(SelectedPath(Display(DiffPaths(e.path, cwd).path), e.recursive))

\* The lines are those of the group, one each, in the order of the entries.
ListsGroup(lines, group, prefix) ==
    /\ Len(lines) = Cardinality(group)
    /\ \A e \in group : \E i \in 1..Len(lines) : lines[i] = prefix \o LineText(e)
    /\ \A i, j \in 1..Len(lines) :
          i < j => \E a, b \in group :
                      /\ lines[i] = prefix \o LineText(a)
                      /\ lines[j] = prefix \o LineText(b)
                      /\ EntryBefore(a, b)

\* C16: the buffer is the header, one uncommented line per candidate with a
\* persisted path, a blank line iff both groups are non-empty, and one commented
\* line per other candidate, each group in the order of SelectedPath.
C16_BufferLayout ==
    pc = "BufferRendered" =>
        LET n1 == Cardinality(FirstGroup)
            n2 == Cardinality(SecondGroup)
            gap == IF n1 > 0 /\ n2 > 0 THEN 1 ELSE 0
            h == Len(HEADER)
        IN  /\ Len(buf) = h + n1 + gap + n2
            /\ SubSeq(buf, 1, h) = HEADER
            /\ ListsGroup(SubSeq(buf, h + 1, h + n1), FirstGroup, <<>>)
            /\ gap = 1 => buf[h + n1 + 1] = <<>>
            /\ ListsGroup(SubSeq(buf, h + n1 + gap + 1, Len(buf)), SecondGroup, <<HASH, SPACE>>)

\* Both groups hold two candidates and the blank line separates them.
C16_Witness ==
    /\ pc = "BufferRendered"
    /\ Cardinality(FirstGroup) >= 2
    /\ Cardinality(SecondGroup) >= 2
    /\ buf[Len(HEADER) + Cardinality(FirstGroup) + 1] = <<>>

\* ------------------------------------------------- lines of the editor output

Blank(line) == \A i \in 1..Len(line) : line[i] = SPACE

\* A line the parse leaves out: blank, or with the comment marker first.
IgnoredLine(line) == Blank(line) \/ line[1] = HASH

\* The line without the spaces around it.
Stripped(line) ==
    LET inked == {i \in 1..Len(line) : line[i] # SPACE}
        lo == CHOOSE i \in inked : \A j \in inked : i <= j
        hi == CHOOSE i \in inked : \A j \in inked : j <= i
    IN  SubSeq(line, lo, hi)

\* The path text of a line: what follows the '*' if there is one.
PathText(line) ==
    IF Stripped(line)[1] = STAR THEN SubSeq(Stripped(line), 2, Len(Stripped(line)))
    ELSE Stripped(line)

\* The parse has run on the editor output.
ParseDone ==
    \/ "Parsed" \in Range(steps)
    \/ pc = "Failed" /\ failedAt \in {"parse", "relativize"}

\* C17: a line is left out iff it is blank or starts with '#'; every other line
\* gives one outcome, the canonical path with the flag its '*' says or one
\* collected error, and nothing else is in the outcomes.
C17_LinesCounted ==
    ParseDone =>
        LET kept == {i \in 1..Len(result) : ~IgnoredLine(result[i])}
            good == {i \in kept : Canonicalize(PathText(result[i]), cwd).ok}
            bad == kept \ good
        IN  /\ paths = {SelectedPath(Canonicalize(PathText(result[i]), cwd).path,
                                     Stripped(result[i])[1] # STAR) : i \in good}
            /\ Len(errors) = Cardinality(bad)
            /\ \A i \in bad : \E k \in 1..Len(errors) :
                  errors[k][1] = Msg("failed to canonicalize", PathText(result[i]))

\* A line with a space before '#' is counted and fails; " *d " resolves to d.
C17_Witness ==
    /\ pc = "Failed"
    /\ failedAt = "parse"
    /\ result = <<<<SPACE, HASH, "d">>, <<SPACE, STAR, "d", SPACE>>>>
    /\ paths = {SelectedPath(<<R, D>>, FALSE)}
    /\ Len(errors) = 1

\* --------------------------------------------------- the empty selection

\* The editor output holds no line that counts.
NothingLeft == \A i \in 1..Len(result) : IgnoredLine(result[i])

\* C18: when the editor output holds no counted line, the reconciliation succeeds
\* with the empty Selection and the command persists it.
C18_EmptyIsValid ==
    (ParseDone /\ NothingLeft) =>
        /\ pc # "Failed"
        /\ paths = {}
        /\ pc \in {"Selected", "Done"} => selection = {}
        /\ pc = "Done" => configSel = [some |-> TRUE, stored |-> {}]

\* A non-empty persisted selection has been replaced by the empty one.
C18_Witness ==
    /\ pc = "Done"
    /\ ParseDone
    /\ NothingLeft
    /\ result # <<>>
    /\ before.stored # {}
    /\ configSel = [some |-> TRUE, stored |-> {}]

\* ------------------------------------------------------ the temporary file

\* get_user_input_from_file_content has returned in this run.
EditorReturned ==
    \/ "Edited" \in Range(steps)
    \/ pc = "Failed" /\ failedAt \in {"editor", "parse", "relativize"}

\* C19: once get_user_input_from_file_content has returned, with the text or
\* with any of its errors, the temporary file does not exist.
C19_TempFileRemoved ==
    EditorReturned =>
        /\ tmpfile # "exists"
        /\ tmpfile = "none" =>
              (failedAt = "editor" /\ error[1].msg = "failed to create a temporary file")

\* The editor could not be started and the file written for it is gone.
C19_Witness ==
    /\ pc = "Failed"
    /\ failedAt = "editor"
    /\ error[1].msg = "failed to start editor"
    /\ tmpfile = "removed"

\* ------------------------------------------------- order of the expansion

Started ==
    IF wpc = "new" THEN {}
    ELSE {SelectedPath(Join(GitRoot, e.path), e.recursive) : e \in wselection} \ Range(wqueue)

\* What holds of an expansion at every moment: a callback that returned an
\* error is the last one invoked and its error is the one returned; an entry
\* that cannot be walked is the last one started; a failed expansion has an
\* error to return.
AbortedAtFirstFailure ==
    /\ \A i \in 1..(Len(wcalls) - 1) : wcalls[i].ok
    /\ (wcalls # <<>> /\ ~wcalls[Len(wcalls)].ok) =>
          /\ wpc = "failed"
          /\ werror = <<Msg("on_file", wcalls[Len(wcalls)].abs)>>
    /\ \A e \in Started :
          ~Exists(Real(e.path)) =>
              /\ e = wentry
              /\ wpc \in {"items", "failed"}
              /\ wpc = "failed" => werror[1] = Msg("failed to walk directories", <<>>)
    /\ wpc = "failed" => werror # <<>>
    /\ wpc = "done" => werror = <<>>

\* What holds of every step: the calls made so far stay as they are, and after
\* the failure nothing is walked or called.
CallsKept ==
    /\ Len(wcalls') >= Len(wcalls)
    /\ SubSeq(wcalls', 1, Len(wcalls)) = wcalls
    /\ wpc = "failed" => UNCHANGED <<wpc, wcalls, werror, wqueue, witems>>

\* C20: the first failure of an expansion (a walk error, a relativization
\* failure or an error of the callback) ends it: that error is returned, no
\* callback is invoked afterwards, and the calls already made are kept.
C20_FirstFailureAborts == []AbortedAtFirstFailure /\ [][CallsKept]_vars

\* The callback failed on the second file; the first call stands and an entry
\* is still waiting.
C20_Witness ==
    /\ wpc = "failed"
    /\ Len(wcalls) = 2
    /\ wcalls[1].ok
    /\ ~wcalls[2].ok
    /\ witems # <<>>
    /\ wqueue # <<>>

\* An entry that is gone made the walk fail after another entry was expanded.
C20_WitnessWalkError ==
    /\ wpc = "failed"
    /\ werror[1] = Msg("failed to walk directories", <<>>)
    /\ wcalls # <<>>

\* ------------------------------------------------- keys of the candidate set

\* The candidate set exists from the resolution of the roots on.
CandidatesBuilt == pc \in {"RootsResolved", "CandidatesDiscovered", "BufferRendered", "Edited", "Parsed"}

\* C21: every key of the candidate set is the canonical path of the place it
\* names, so no place is named by two different keys.
C21_CanonicalKeys ==
    CandidatesBuilt =>
        /\ \A k \in Keys(final_paths) : Exists(Real(k)) => Real(k) = k
        /\ \A a, b \in Keys(final_paths) : Real(a) = Real(b) => a = b

\* ------------------------------------------------- replacement of the selection

\* The stored text of the entry a line of the editor output resolves to.
StoredFor(line) ==
    LET o == ParseLine(line, cwd)
    IN  ToString(SelectedPath(Display(DiffPaths(o.sp.path, GitRoot).path), o.sp.recursive))

\* The stored texts the editor output resolves to.
StoredForOutput == {StoredFor(l) : l \in Range(SelectSeq(result, Counted))}

\* C22: after a successful command the persisted selection is the Selection
\* the reconciliation returned and holds exactly the entries the lines of the
\* editor output resolve to; a previous entry stays only if a line resolves to it.
C22_WholesaleReplacement ==
    pc = "Done" =>
        /\ configSel.some
        /\ ReadSelection(configSel.stored) = selection
        /\ configSel.stored = StoredForOutput
        /\ \A s \in before.stored : s \in configSel.stored => s \in StoredForOutput

\* A previous entry was dropped and another one written in its place.
C22_Witness ==
    /\ pc = "Done"
    /\ before.some
    /\ before.stored # {}
    /\ configSel.stored # {}
    /\ before.stored \cap configSel.stored = {}
    /\ configSel.stored = StoredForOutput

\* ------------------------------------------------- outcomes of the editor step

\* The editor process was started and waited for.
EditorWaited == exit_status # "none"

\* C23 as stated: the editor step fails only when the process cannot be started
\* or waited for, and once the process was waited for the output is parsed.
C23_TwoOutcomes ==
    /\ EditorWaited => "Edited" \in Range(steps)
    /\ failedAt = "editor" =>
          error[1].msg \in {"failed to start editor", "failed to wait for editor"}

\* A failed editor step: one of the five failures of
\* get_user_input_from_file_content, after the wait only the read; nothing is
\* parsed and the config is as it was.
EditorAborted ==
    failedAt = "editor" =>
        /\ pc = "Failed"
        /\ error[1].msg \in EditorFailures
        /\ EditorWaited <=> error[1].msg = "failed to read temporary file"
        /\ "Edited" \notin Range(steps)
        /\ paths = {} /\ errors = <<>> /\ selection = {}
        /\ configSel = before

\* An editor step that returned: the process was waited for, with any status.
EditorProceeded ==
    "Edited" \in Range(steps) => exit_status \in ExitStatuses /\ failedAt # "editor"

\* The step after the editor parses the text read back, whatever the status.
ParsesWhatWasRead ==
    pc = "Edited" =>
        /\ pc' \in {"Parsed", "Failed"}
        /\ paths' = ParsedPaths(result, cwd)
        /\ errors' = ParsedErrors(result, cwd)
        /\ failedAt' \in {"none", "parse"}

\* C23: the editor step either returns the text of the temporary file, which is
\* then parsed whatever the exit status of the editor was, or fails (creating,
\* writing or reading the file, starting or waiting for the process) with
\* nothing parsed and nothing persisted.
C23_EditorOutcomes == [](EditorAborted /\ EditorProceeded) /\ [][ParsesWhatWasRead]_vars

\* The editor exited with a failure status and its output was parsed and stored.
C23_Witness ==
    /\ pc = "Done"
    /\ exit_status = "1"
    /\ result # buf
    /\ paths # {}
    /\ configSel # before

\* ------------------------------------------------- order of the steps

\* The steps of one run, in the order of the code.
StepOrder ==
    <<"Start", "RootsResolved", "CandidatesDiscovered", "BufferRendered", "Edited",
      "Parsed", "Selected", "Done">>

StepNo(s) == CHOOSE i \in 1..Len(StepOrder) : StepOrder[i] = s

Took(s) == s \in Range(steps)

\* Every step taken at most once, and the steps in the order of the code.
StepsAscending == \A i, j \in 1..Len(steps) : i < j => StepNo(steps[i]) < StepNo(steps[j])

\* What every step has behind it, the write of the config left aside.
StepsAfterTheirs ==
    /\ Took("CandidatesDiscovered") => Took("RootsResolved")
    /\ Took("BufferRendered") => Took("CandidatesDiscovered")
    /\ Took("Edited") => Took("BufferRendered")
    /\ Took("Parsed") => Took("Edited")
    /\ failedAt # "none" => pc = "Failed" /\ ~Took("Done")

\* A step never goes back: the run moves on, or it has failed or finished and
\* the process exits; the config changes only in the one write of the command.
NoRetry ==
    /\ pc \in {"Failed", "Done"} => pc' = "Idle"
    /\ pc \notin {"Failed", "Done", "Idle"} =>
          \/ pc' = "Failed" /\ steps' = steps
          \/ /\ \E s \in Range(StepOrder) : steps' = Append(steps, s)
             /\ StepNo(pc') > StepNo(pc)
    /\ configSel' # configSel => pc = "Selected" /\ pc' = "Done"

\* C24 as stated: the steps in their order, none repeated, and the config
\* written only after parsing and relativization succeeded.
C24_FixedOrder ==
    /\ StepsAscending
    /\ StepsAfterTheirs
    /\ Took("Done") => Took("Parsed") /\ Took("Selected")

\* The run returned early: nothing was selected or suggested.
ReturnedEarly == ~Took("BufferRendered") /\ final_paths = {} /\ selection = {}

\* C24: the steps occur in the order of the code, each at most once and none
\* retried, a failure ends the run, and the config is written at most once:
\* after parsing and relativization succeeded, or right after discovery when
\* the candidate set is empty.
C24_FixedOrderOrEarlyReturn ==
    /\ [](/\ StepsAscending
          /\ StepsAfterTheirs
          /\ Took("Done") => (Took("Parsed") /\ Took("Selected")) \/ ReturnedEarly)
    /\ [][NoRetry]_vars

\* A run that went through every step and changed the config.
C24_Witness ==
    /\ steps = StepOrder
    /\ roots # <<>>
    /\ result # buf
    /\ configSel # before

\* ------------------------------------------------- determinism of the buffer

\* The buffer of another run with the same persisted selection, roots,
\* filesystem and working directory, in which the map was collected as `loaded`.
BufferOf(loaded) ==
    LET withRoots == InsertAll(loaded, canonical_roots)
        found == InsertAll(withRoots, SelectSeq(Walk(canonical_roots, FALSE), IsDir))
    IN  RenderBuffer(found, Keys(loaded), cwd).buf

\* C25: every run with the inputs of this run renders the buffer of this run.
C25_SameBuffer ==
    pc = "BufferRendered" =>
        \A loaded \in LoadChoices(previous_selection.sel) : BufferOf(loaded) = buf

\* ------------------------------------------------- entries that are files

WalkedFiles == IF wpc = "new" THEN {} ELSE {entry \in Walked : IsFile(entry.path)}

\* C26: the expansion of an entry for a regular file calls the callback once,
\* with that file, whatever the flag of the entry; the callback is never given
\* a directory, so never the directory of the entry under which it is called.
C26_FileEntryOnce ==
    /\ \A entry \in WalkedFiles :
          /\ Len(CallsFor(entry)) = 1
          /\ CallsFor(entry)[1].abs = entry.path
    /\ \A c \in Range(wcalls) :
          /\ IsFile(c.abs)
          /\ IsDir(c.entry.path) => Real(c.abs) # Real(c.entry.path)

\* A visible file selected non-recursively and a hidden file selected
\* recursively: one call each.
C26_Witness ==
    /\ wpc = "done"
    /\ wselection = {SelectedPath(<<"d", SLASH, "a">>, FALSE),
                     SelectedPath(<<"d", SLASH, DOT, "h">>, TRUE)}
    /\ {c.abs : c \in Range(wcalls)} = {<<R, D, A>>, <<R, D, H>>}
    /\ Len(wcalls) = 2

\* ------------------------------------------------- entries that overlap

\* C27: one expansion gives no file to the callback twice.
C27_AtMostOncePerFile ==
    \A i, j \in 1..Len(wcalls) : Real(wcalls[i].abs) = Real(wcalls[j].abs) => i = j

\* ------------------------------------------------- the empty candidate set

\* Nothing persisted and no root given.
NoCandidates == previous_selection.sel = {} /\ roots = <<>>

\* With no candidates the run goes from discovery to the write: no buffer, no
\* editor, no temporary file, no failure, and the Selection returned is empty.
EmptyReturnsEarly ==
    (Took("CandidatesDiscovered") /\ NoCandidates) =>
        /\ final_paths = {}
        /\ pc \in {"Selected", "Done"}
        /\ selection = {}
        /\ ~Took("BufferRendered") /\ ~Took("Edited")
        /\ buf = <<>> /\ tmpfile = "none" /\ exit_status = "none"
        /\ failedAt = "none"
        /\ pc = "Done" => configSel = [some |-> TRUE, stored |-> {}]

\* The step after the early return writes a present, empty selection.
EmptyIsWritten ==
    (pc = "Selected" /\ NoCandidates) =>
        /\ pc' = "Done"
        /\ configSel' = [some |-> TRUE, stored |-> {}]

\* C28: with an empty candidate set the reconciliation returns an empty
\* Selection without the editor, and the command stores a present, empty
\* selection, also where none was stored before.
C28_EmptyCandidates == []EmptyReturnsEarly /\ [][EmptyIsWritten]_vars

\* A first run in a repository without a config, without roots.
C28_Witness ==
    /\ pc = "Done"
    /\ NoCandidates
    /\ ~before.some
    /\ configSel = [some |-> TRUE, stored |-> {}]
    /\ steps = <<"Start", "RootsResolved", "CandidatesDiscovered", "Done">>

\* ------------------------------------------------- removal of comments

\* "<!--"
OPEN == <<"<", "!", "-", "-">>

\* "-->"
CLOSE == <<"-", "-", ">">>

\* str::find: the first index at or after `from` where pat occurs, 0 for None.
Find(text, pat, from) ==
    LET hits == {i \in from..(Len(text) - Len(pat) + 1) :
                    SubSeq(text, i, i + Len(pat) - 1) = pat}
    IN  IF hits = {} THEN 0 ELSE CHOOSE i \in hits : \A j \in hits : i <= j

\* String::replace_range(a..=b, "")
RemoveRange(text, a, b) == SubSeq(text, 1, a - 1) \o SubSeq(text, b + 1, Len(text))

\* The pieces the arguments are put together from.
CommentTokens ==
    {OPEN, CLOSE, <<"<">>, <<"<", "!">>, <<"!", "-", "-">>, <<"-", "-">>, <<"a">>}

\* The most pieces an argument has.
MaxTokens == 4

CommentInputs == {Flatten(s) : s \in SeqsUpTo(CommentTokens, MaxTokens)}

CommentsInit ==
    /\ rpc = "loop"
    /\ rinput \in CommentInputs
    /\ rtext = rinput
    /\ SelIdle
    /\ CodecIdle
    /\ WalkIdle
    /\ FeaturesIdle

\* text.find("<!--") is Some(start), text[start..].find("-->") is Some(end):
\* the comment goes, closing marker included.
RemoveComment ==
    /\ rpc = "loop"
    /\ UNCHANGED <<selVars, codecVars, walkVars, featureVars>>
    /\ LET start == Find(rtext, OPEN, 1)
       IN  /\ start # 0
           /\ Find(rtext, CLOSE, start) # 0
           /\ rtext' = RemoveRange(rtext, start, Find(rtext, CLOSE, start) + 2)
    /\ UNCHANGED <<rpc, rinput>>

\* An unclosed comment that is left in the text.
RemoveUnclosedKeep ==
    /\ rpc = "loop"
    /\ UNCHANGED <<selVars, codecVars, walkVars, featureVars>>
    /\ LET start == Find(rtext, OPEN, 1)
       IN  /\ start # 0
           /\ Find(rtext, CLOSE, start) = 0
           /\ rtext' = rtext
    /\ UNCHANGED <<rpc, rinput>>

\* text.find("<!--") is Some(start) and no "-->" follows: the four characters
\* of the opening marker go.
RemoveUnclosed ==
    /\ rpc = "loop"
    /\ UNCHANGED <<selVars, codecVars, walkVars, featureVars>>
    /\ LET start == Find(rtext, OPEN, 1)
       IN  /\ start # 0
           /\ Find(rtext, CLOSE, start) = 0
           /\ rtext' = RemoveRange(rtext, start, start + 3)
    /\ UNCHANGED <<rpc, rinput>>

\* text.find("<!--") is None: break, and the text is returned.
ReturnText ==
    /\ rpc = "loop"
    /\ UNCHANGED <<selVars, codecVars, walkVars, featureVars>>
    /\ Find(rtext, OPEN, 1) = 0
    /\ rpc' = "done"
    /\ UNCHANGED <<rinput, rtext>>

CommentsNext ==
    \/ RemoveComment
    \/ RemoveUnclosed
    \/ ReturnText

\* The loop runs on until it breaks.
SpecComments == CommentsInit /\ [][CommentsNext]_vars /\ WF_vars(CommentsNext)

\* Every turn of the loop makes the text shorter.
Shrinks == (rpc = "loop" /\ rpc' = "loop") => Len(rtext') < Len(rtext)

\* C29: remove_comments_from_string returns for every argument, also one with
\* an unclosed "<!--", and what it returns holds no "<!--".
C29_Terminates ==
    /\ <>(rpc = "done")
    /\ [](rpc = "done" => Find(rtext, OPEN, 1) = 0)
    /\ [][Shrinks]_vars

\* The removal of an unclosed marker joined a new one, which was removed in turn.
C29_Witness ==
    /\ rpc = "done"
    /\ rinput = <<"<">> \o OPEN \o <<"!", "-", "-">>
    /\ rtext = <<>>

\* ------------------------------------------------- features

\* Names given on the command line: FeatureName::new takes any String.
FeatureNames == {<<"f">>, <<"f", SLASH, "g">>, <<>>}

\* feature_path: features_dir().join(name), relative to the features directory.
feature_path(name) == Components(name)

\* features_dir(): the directory is created when it is missing.
features_dir(dirs) == dirs \cup {<<>>}

\* q is p or lies below p.
Below(p, q) == Len(q) >= Len(p) /\ SubSeq(q, 1, Len(p)) = p

\* fs::create_dir_all(path): the directory and every missing parent.
create_dir_all(dirs, p) == dirs \cup {SubSeq(p, 1, k) : k \in 0..Len(p)}

\* fs::remove_dir_all(path): the directory with all it holds.
remove_dir_all(set, p) == {q \in set : ~Below(p, q)}

\* exists(name): feature_path(name)?.exists()
exists(dirs, name) == feature_path(name) \in features_dir(dirs)

\* read_selection(name) is Some: the feature's selection.toml exists.
read_selection(sels, name) == feature_path(name) \in sels

FeaturesInit ==
    /\ fpc = "on"
    /\ fdirs \in {{}, {<<>>}}
    /\ fsels = {}
    /\ flast = [n \in FeatureNames |-> "none"]
    /\ fop = [op |-> "none", name |-> <<>>, ok |-> TRUE]
    /\ SelIdle
    /\ CodecIdle
    /\ WalkIdle
    /\ TextIdle

\* Create::run, feature::create
Create ==
    /\ fpc = "on"
    /\ UNCHANGED <<selVars, codecVars, walkVars, textVars>>
    /\ \E name \in FeatureNames :
        LET dirs == features_dir(fdirs)
            path == feature_path(name)
        IN  IF path \in dirs
            THEN /\ fdirs' = dirs
                 /\ fop' = [op |-> "create", name |-> name, ok |-> FALSE]
                 /\ UNCHANGED flast
            ELSE /\ fdirs' = create_dir_all(dirs, path)
                 /\ fop' = [op |-> "create", name |-> name, ok |-> TRUE]
                 /\ flast' = [flast EXCEPT ![name] = "create"]
    /\ UNCHANGED <<fpc, fsels>>

\* Delete::run, feature::delete
Delete ==
    /\ fpc = "on"
    /\ UNCHANGED <<selVars, codecVars, walkVars, textVars>>
    /\ \E name \in FeatureNames :
        LET dirs == features_dir(fdirs)
            path == feature_path(name)
        IN  IF ~exists(fdirs, name)
            THEN /\ fdirs' = dirs
                 /\ fop' = [op |-> "delete", name |-> name, ok |-> FALSE]
                 /\ UNCHANGED <<fsels, flast>>
            ELSE /\ fdirs' = remove_dir_all(dirs, path)
                 /\ fsels' = remove_dir_all(fsels, path)
                 /\ fop' = [op |-> "delete", name |-> name, ok |-> TRUE]
                 /\ flast' = [flast EXCEPT ![name] = "delete"]
    /\ UNCHANGED fpc

\* Select::run of the feature command, with a reconciliation that returned Ok:
\* the check of exists(name), then feature::write_selection.
write_selection ==
    /\ fpc = "on"
    /\ UNCHANGED <<selVars, codecVars, walkVars, textVars>>
    /\ \E name \in FeatureNames :
        LET dirs == features_dir(fdirs)
            path == feature_path(name)
        IN  IF ~exists(fdirs, name)
            THEN /\ fdirs' = dirs
                 /\ fop' = [op |-> "select", name |-> name, ok |-> FALSE]
                 /\ UNCHANGED fsels
            ELSE /\ fdirs' = create_dir_all(dirs, path)
                 /\ fsels' = fsels \cup {path}
                 /\ fop' = [op |-> "select", name |-> name, ok |-> TRUE]
    /\ UNCHANGED <<fpc, flast>>

FeaturesNext ==
    \/ Create
    \/ Delete
    \/ write_selection

SpecFeatures == FeaturesInit /\ [][FeaturesNext]_vars

\* The step leaves the features and their selections as they were.
FeaturesKept ==
    /\ fdirs' \ {<<>>} = fdirs \ {<<>>}
    /\ fsels' = fsels
    /\ flast' = flast

\* A create on a feature that exists and a delete on one that does not fail
\* and change nothing; the others succeed.
CreateDeleteStep ==
    /\ fop'.op = "create" =>
          /\ fop'.ok <=> ~exists(fdirs, fop'.name)
          /\ ~fop'.ok => FeaturesKept
    /\ fop'.op = "delete" =>
          /\ fop'.ok <=> exists(fdirs, fop'.name)
          /\ ~fop'.ok => FeaturesKept

\* A feature exists exactly when the last successful operation on its name was
\* a create, and after a successful delete its selection reads as absent.
ExistsIffCreated ==
    /\ \A n \in FeatureNames : exists(fdirs, n) <=> flast[n] = "create"
    /\ (fop.op = "delete" /\ fop.ok) => ~read_selection(fsels, fop.name)

\* C30: create fails and changes nothing on a feature that exists, delete fails
\* and changes nothing on one that does not, exists(name) holds exactly when
\* the last successful operation on the name was a create, and after a
\* successful delete the stored selection of the feature reads as absent.
C30_CreateDelete == []ExistsIffCreated /\ [][CreateDeleteStep]_vars

\* ------------------------------------------- encode/decode round trip

CodecChars == {STAR, SLASH, "d", HASH}

CodecInit ==
    /\ cpc = "new"
    /\ cin \in {SelectedPath(p, r) : p \in TextsUpTo(CodecChars, MaxLen), r \in BOOLEAN}
    /\ ctext = <<>>
    /\ cout = SelectedPath(<<>>, TRUE)
    /\ SelIdle
    /\ WalkIdle
    /\ TextIdle
    /\ FeaturesIdle

Encode ==
    /\ cpc = "new"
    /\ UNCHANGED <<selVars, walkVars, textVars, featureVars>>
    /\ ctext' = ToString(cin)
    /\ cpc' = "encoded"
    /\ UNCHANGED <<cin, cout>>

Decode ==
    /\ cpc = "encoded"
    /\ UNCHANGED <<selVars, walkVars, textVars, featureVars>>
    /\ cout' = FromStr(ctext)
    /\ cpc' = "decoded"
    /\ UNCHANGED <<cin, ctext>>

CodecNext ==
    \/ Encode
    \/ Decode

SpecCodec == CodecInit /\ [][CodecNext]_vars

\* C1: for every path string p not starting with '*' and both values of r,
\* decoding the encoding of SelectedPath(p, r) yields SelectedPath(p, r).
C1_RoundTrip ==
    (cpc = "decoded" /\ ~StartsWith(cin.path, STAR)) => cout = cin

C1_Witness ==
    /\ cpc = "decoded"
    /\ ~cin.recursive
    /\ Len(cin.path) = MaxLen
    /\ ~StartsWith(cin.path, STAR)
    /\ ctext = <<STAR>> \o cin.path
    /\ cout = cin

====
